---------------------------- MODULE Spec2Model ----------------------------
(***************************************************************************)
(* A model of nebula.gl's EditableFeatureCollection                        *)
(* (src/src/lib/editable-feature-collection.js).                           *)
(*                                                                         *)
(* JavaScript arrays and objects are mutable and are passed by reference,  *)
(* so the model keeps a heap: a sequence of cells addressed by their index.*)
(* Every array literal, object literal and `new` of the source allocates a *)
(* cell; every indexed assignment (updated[0] = ...) writes a cell.  A     *)
(* function of the source becomes an operator that takes the heap and      *)
(* returns the heap after the call, the returned value and the error       *)
(* thrown, if any.                                                         *)
(*                                                                         *)
(* A position ([lng, lat]) is an array as well, but no statement of the    *)
(* source ever writes into one, so a position is kept as an immutable      *)
(* value; it can still be indexed and sliced like an array.                *)
(*                                                                         *)
(* The second part models EditableLayer                                    *)
(* (src/modules/core/src/lib/layers/editable-layer.js): the layer's        *)
(* _editableLayerState, the listeners it has on the canvas, and the        *)
(* callbacks its listeners call.  The two classes do not use each other;   *)
(* each has its own specification, which leaves the other's variables as   *)
(* they are.                                                               *)
(***************************************************************************)
EXTENDS Integers, Sequences, FiniteSets, TLC

VARIABLES
    heap,       \* the JavaScript heap: Seq of cells
    editor,     \* the EditableFeatureCollection the application holds now
    call,       \* the last call: [op, featureIndex, positionIndexes, updatedPosition]
    error,      \* the message of the Error the last call threw, "" if none
    handles,    \* what the last call returned when it was getEditHandles
    before,     \* getObject() of the editor the last call was made on, as a
                \* deep value, before the call
    after,      \* getObject() of that same editor after the call
    shared,     \* the indexes at which the collection the last call returned
                \* holds the very feature object the receiver's holds
    layer,      \* the EditableLayer: [state |-> its _editableLayerState,
                \* listeners |-> the listeners on the canvas, in the order
                \* they were added, fired |-> the callbacks the last step called]
    step,       \* the last step of the layer: [kind, screenCoords, picks]
    previous,   \* `layer` before that step
    log         \* the onStartDragging, onStopDragging and onClick calls so far

editorVars == <<heap, editor, call, error, handles, before, after, shared>>
layerVars == <<layer, step, previous, log>>
vars == <<heap, editor, call, error, handles, before, after, shared,
          layer, step, previous, log>>

----------------------------------------------------------------------------
(* Bounds of the model.                                                    *)

\* rings of the initial polygons have 4 .. MaxRing positions
MaxRing == 5
\* updatedPosition is one of the first NumPositions entries of PositionPool
NumPositions == 1
\* under SpecAnyInput a path element or feature index is in -1 .. MaxIndex
MaxIndex == 2
\* under SpecAnyInput a path has 0 .. MaxPathLen elements
MaxPathLen == 3
\* under SpecLayer pointer events arrive until the layer has called
\* onStartDragging, onStopDragging and onClick MaxLog times
MaxLog == 3

----------------------------------------------------------------------------
(* JavaScript values.  Every value is a record of the same shape, so that  *)
(* any two of them can be compared.                                        *)

JSUndefined == [t |-> "undefined", n |-> 0, s |-> "", p |-> <<>>]
JSNumber(n) == [t |-> "number", n |-> n, s |-> "", p |-> <<>>]
JSString(s) == [t |-> "string", n |-> 0, s |-> s, p |-> <<>>]
JSPosition(p) == [t |-> "position", n |-> 0, s |-> "", p |-> p]
JSRef(a) == [t |-> "ref", n |-> a, s |-> "", p |-> <<>>]

NoFields == [f \in {} |-> JSUndefined]

\* heap cells
ArrayCell(items) == [kind |-> "array", items |-> items, fields |-> NoFields]
ObjectCell(fields) == [kind |-> "object", items |-> <<>>, fields |-> fields]

Min(a, b) == IF a < b THEN a ELSE b
Max(a, b) == IF a > b THEN a ELSE b

IsArray(h, v) ==
    \/ v.t = "position"
    \/ v.t = "ref" /\ h[v.n].kind = "array"

IsObject(h, v) == v.t = "ref" /\ h[v.n].kind = "object"

\* the elements of an array value (a position is the array of its numbers)
Items(h, v) ==
    IF v.t = "position" THEN [i \in 1..Len(v.p) |-> JSNumber(v.p[i])]
    ELSE h[v.n].items

\* array[i], with JavaScript's 0-based index: undefined outside the array
GetIndex(h, v, i) ==
    LET items == Items(h, v)
    IN  IF i >= 0 /\ i < Len(items) THEN items[i + 1] ELSE JSUndefined

\* object.name: undefined when the object has no such property
GetField(h, v, name) ==
    IF name \in DOMAIN h[v.n].fields THEN h[v.n].fields[name] ELSE JSUndefined

\* Array.prototype.slice(start, end) on the elements: a negative index
\* counts from the end, and both are clamped to the array
SliceIndex(k, len) == IF k < 0 THEN Max(len + k, 0) ELSE Min(k, len)

Slice(items, start, end) ==
    SubSeq(items, SliceIndex(start, Len(items)) + 1, SliceIndex(end, Len(items)))

\* slice(start): to the end of the array
SliceFrom(items, start) == Slice(items, start, Len(items))

\* items[i] = v on an array: inside the array it replaces the element, past
\* the end it extends the array with holes, and a negative index sets a
\* property that is no element
SetIndex(items, i, v) ==
    IF i < 0 THEN items
    ELSE IF i < Len(items) THEN [items EXCEPT ![i + 1] = v]
    ELSE [k \in 1..(i + 1) |->
            IF k <= Len(items) THEN items[k]
            ELSE IF k = i + 1 THEN v ELSE JSUndefined]

\* the result of a call: the heap after it, the value returned, the error thrown
Return(h, v) == [heap |-> h, val |-> v, err |-> ""]
Throw(h, msg) == [heap |-> h, val |-> JSUndefined, err |-> msg]

\* a new cell: the heap with it, and the reference to it
Alloc(h, cell) == Return(Append(h, cell), JSRef(Len(h) + 1))

TypeError == "TypeError"

----------------------------------------------------------------------------
(* Deep values: what a value looks like with every reference followed.    *)
(* Two values are deep-equal exactly when their deep values are equal.     *)

RECURSIVE Deep(_, _)
Deep(h, v) ==
    IF v.t = "ref"
    THEN LET cell == h[v.n]
         IN  [t |-> cell.kind, n |-> 0, s |-> "", p |-> <<>>,
              items |-> [i \in 1..Len(cell.items) |-> Deep(h, cell.items[i])],
              fields |-> [f \in DOMAIN cell.fields |-> Deep(h, cell.fields[f])]]
    ELSE [t |-> v.t, n |-> v.n, s |-> v.s, p |-> v.p,
          items |-> <<>>, fields |-> NoFields]

\* the deep value of an array of the given deep values
DArray(items) ==
    [t |-> "array", n |-> 0, s |-> "", p |-> <<>>,
     items |-> items, fields |-> NoFields]

\* the deep value of an object with the given deep values as properties
DObject(fields) ==
    [t |-> "object", n |-> 0, s |-> "", p |-> <<>>,
     items |-> <<>>, fields |-> fields]

\* the deep value of a primitive value or a position
DValue(v) == Deep(<<>>, v)

RECURSIVE SetToSeq(_)
SetToSeq(S) ==
    IF S = {} THEN <<>>
    ELSE LET x == CHOOSE y \in S : TRUE IN <<x>> \o SetToSeq(S \ {x})

IndexOf(seq, x) == CHOOSE i \in 1..Len(seq) : seq[i] = x

IsCompound(node) == node.t \in {"array", "object"}

\* the deep values an array or object holds: the elements, or the
\* properties in the order of their names
Children(node) ==
    IF node.t = "array" THEN node.items
    ELSE LET names == SetToSeq(DOMAIN node.fields)
         IN  [i \in 1..Len(names) |-> node.fields[names[i]]]

\* the cell of an array or object whose children are the values `vals`
CellOf(node, vals) ==
    IF node.t = "array" THEN ArrayCell(vals)
    ELSE LET names == SetToSeq(DOMAIN node.fields)
         IN  ObjectCell([f \in DOMAIN node.fields |-> vals[IndexOf(names, f)]])

\* The cells of a deep value, every array and object in a cell of its own
\* as JSON.parse would build them: the value's own cell first, at address
\* `at`, then the cells of its children in order.  Laid(children, i, next)
\* lays out children i, i + 1, ... from address `next` on and gives their
\* values and cells.
RECURSIVE CellsAt(_, _), Laid(_, _, _)
Laid(children, i, next) ==
    IF i > Len(children) THEN [vals |-> <<>>, cells |-> <<>>]
    ELSE IF ~IsCompound(children[i])
    THEN LET rest == Laid(children, i + 1, next)
         IN  [vals |-> <<[t |-> children[i].t, n |-> children[i].n,
                          s |-> children[i].s, p |-> children[i].p]>> \o rest.vals,
              cells |-> rest.cells]
    ELSE LET own == CellsAt(children[i], next)
             rest == Laid(children, i + 1, next + Len(own))
         IN  [vals |-> <<JSRef(next)>> \o rest.vals, cells |-> own \o rest.cells]

CellsAt(node, at) ==
    LET laid == Laid(Children(node), 1, at + 1)
    IN  <<CellOf(node, laid.vals)>> \o laid.cells

\* the heap that holds the deep value `node` and nothing else, at address 1
Cells(node) == CellsAt(node, 1)

\* Garbage collection.  A cell the application's editor does not reach
\* cannot be observed, so after every call the heap is reduced to the cells
\* the editor reaches, in the order above.  (A cell reached twice would be
\* copied; no edit that addresses a position builds one.)
Collect(h, root) == Cells(Deep(h, root))

----------------------------------------------------------------------------
(* editable-feature-collection.js                                          *)

InvalidArgument == "Must specify the index of the position to remove"
RingTooSmall ==
    "Cannot remove a position from a triangle as it will no longer be a polygon"

\* array[i] = v on the array cell `array` refers to
WriteIndex(h, array, i, v) ==
    [h EXCEPT ![array.n].items = SetIndex(@, i, v)]

\* {...object, name: v}: the properties of an object literal that spreads
\* `fields` and then sets `name`
Spread(fields, name, v) ==
    [f \in DOMAIN fields \cup {name} |-> IF f = name THEN v ELSE fields[f]]

\* `this.featureCollection`
getObject(h, this) == GetField(h, this, "featureCollection")

\* A variant of ReplaceInArray that assigns into `coordinates` itself instead
\* of into a copy of it.
ReplaceInArrayInPlace(h, coordinates, index, updatedPosition, isPolygonal) ==
    IF ~IsArray(h, coordinates) THEN Throw(h, TypeError)
    ELSE
    LET length == Len(Items(h, coordinates))
        written == WriteIndex(h, coordinates, index, updatedPosition)
    IN  IF isPolygonal /\ (index = 0 \/ index = length - 1)
        THEN Return(WriteIndex(WriteIndex(written, coordinates, 0, updatedPosition),
                               coordinates, length - 1, updatedPosition),
                    coordinates)
        ELSE Return(written, coordinates)

\* A variant of ReplaceInArray that sets the addressed element only, also at
\* the ends of a polygon's ring.
ReplaceInArrayNoMirror(h, coordinates, index, updatedPosition, isPolygonal) ==
    IF ~IsArray(h, coordinates) THEN Throw(h, TypeError)
    ELSE
    LET items == Items(h, coordinates)
    IN  Alloc(h, ArrayCell(Slice(items, 0, index) \o <<updatedPosition>>
                                                  \o SliceFrom(items, index + 1)))

\* positionIndexes.length === 1 in immutablyReplacePosition: a copy of
\* `coordinates` with updatedPosition at the index, and for a polygon's ring
\* at both ends when the index is the first or the last.  Calling slice on
\* what is no array is a TypeError.
ReplaceInArray(h, coordinates, index, updatedPosition, isPolygonal) ==
    IF ~IsArray(h, coordinates) THEN Throw(h, TypeError)
    ELSE
    LET items == Items(h, coordinates)
        length == Len(items)
        updated == Alloc(h, ArrayCell(Slice(items, 0, index)
                                        \o <<updatedPosition>>
                                        \o SliceFrom(items, index + 1)))
    IN  IF isPolygonal /\ (index = 0 \/ index = length - 1)
        THEN Return(WriteIndex(WriteIndex(updated.heap, updated.val, 0, updatedPosition),
                               updated.val, length - 1, updatedPosition),
                    updated.val)
        ELSE updated

\* positionIndexes is an Array<number> (never null), so the early return of
\* `!positionIndexes` is not taken.
RECURSIVE immutablyReplacePosition(_, _, _, _, _)
immutablyReplacePosition(h, coordinates, positionIndexes, updatedPosition, isPolygonal) ==
    IF Len(positionIndexes) = 0 THEN Return(h, updatedPosition)
    ELSE IF Len(positionIndexes) = 1
    THEN ReplaceInArray(h, coordinates, positionIndexes[1], updatedPosition, isPolygonal)
    ELSE IF ~IsArray(h, coordinates) THEN Throw(h, TypeError)
    ELSE
    LET index == positionIndexes[1]
        head == Slice(Items(h, coordinates), 0, index)
        inner == immutablyReplacePosition(h, GetIndex(h, coordinates, index),
                                          Tail(positionIndexes), updatedPosition,
                                          isPolygonal)
    IN  IF inner.err # "" THEN inner
        ELSE Alloc(inner.heap,
                   ArrayCell(head \o <<inner.val>>
                                  \o SliceFrom(Items(inner.heap, coordinates), index + 1)))

\* A variant of RemoveFromArray that does not copy the new first (last)
\* position to the other end of a polygon's ring.
RemoveFromArrayNoResync(h, coordinates, index, isPolygonal) ==
    IF ~IsArray(h, coordinates) THEN Throw(h, TypeError)
    ELSE
    LET items == Items(h, coordinates)
    IN  IF isPolygonal /\ Len(items) < 5 THEN Throw(h, RingTooSmall)
        ELSE Alloc(h, ArrayCell(Slice(items, 0, index) \o SliceFrom(items, index + 1)))

\* A variant of RemoveFromArray that refuses a polygon's ring of fewer than 4
\* positions, not of fewer than 5.
RemoveFromArrayWeakGuard(h, coordinates, index, isPolygonal) ==
    IF ~IsArray(h, coordinates) THEN Throw(h, TypeError)
    ELSE
    LET items == Items(h, coordinates)
        length == Len(items)
    IN  IF isPolygonal /\ length < 4 THEN Throw(h, RingTooSmall)
        ELSE
        LET updated == Alloc(h, ArrayCell(Slice(items, 0, index)
                                            \o SliceFrom(items, index + 1)))
            updatedLength == Len(Items(updated.heap, updated.val))
        IN  IF isPolygonal /\ (index = 0 \/ index = length - 1)
            THEN IF index = 0
                 THEN Return(WriteIndex(updated.heap, updated.val, updatedLength - 1,
                                        GetIndex(updated.heap, updated.val, 0)),
                             updated.val)
                 ELSE Return(WriteIndex(updated.heap, updated.val, 0,
                                        GetIndex(updated.heap, updated.val,
                                                 updatedLength - 1)),
                             updated.val)
            ELSE updated

\* A variant of RemoveFromArray that copies the wrong way round: the last
\* position to the first when the first was removed, and the first to the
\* last when the last was removed.
RemoveFromArraySwappedResync(h, coordinates, index, isPolygonal) ==
    IF ~IsArray(h, coordinates) THEN Throw(h, TypeError)
    ELSE
    LET items == Items(h, coordinates)
        length == Len(items)
    IN  IF isPolygonal /\ length < 5 THEN Throw(h, RingTooSmall)
        ELSE
        LET updated == Alloc(h, ArrayCell(Slice(items, 0, index)
                                            \o SliceFrom(items, index + 1)))
            updatedLength == Len(Items(updated.heap, updated.val))
        IN  IF isPolygonal /\ (index = 0 \/ index = length - 1)
            THEN IF index = 0
                 THEN Return(WriteIndex(updated.heap, updated.val, 0,
                                        GetIndex(updated.heap, updated.val,
                                                 updatedLength - 1)),
                             updated.val)
                 ELSE Return(WriteIndex(updated.heap, updated.val, updatedLength - 1,
                                        GetIndex(updated.heap, updated.val, 0)),
                             updated.val)
            ELSE updated

\* positionIndexes.length === 1 in immutablyRemovePosition: a polygon's ring
\* of fewer than 5 positions is refused; otherwise a copy of `coordinates`
\* without the element at the index, and for a polygon's ring the other end
\* set to the new first (last) position when the first (last) was removed
RemoveFromArray(h, coordinates, index, isPolygonal) ==
    IF ~IsArray(h, coordinates) THEN Throw(h, TypeError)
    ELSE
    LET items == Items(h, coordinates)
        length == Len(items)
    IN  IF isPolygonal /\ length < 5 THEN Throw(h, RingTooSmall)
        ELSE
        LET updated == Alloc(h, ArrayCell(Slice(items, 0, index)
                                            \o SliceFrom(items, index + 1)))
            updatedLength == Len(Items(updated.heap, updated.val))
        IN  IF isPolygonal /\ (index = 0 \/ index = length - 1)
            THEN IF index = 0
                 THEN Return(WriteIndex(updated.heap, updated.val, updatedLength - 1,
                                        GetIndex(updated.heap, updated.val, 0)),
                             updated.val)
                 ELSE Return(WriteIndex(updated.heap, updated.val, 0,
                                        GetIndex(updated.heap, updated.val,
                                                 updatedLength - 1)),
                             updated.val)
            ELSE updated

\* A variant of immutablyRemovePosition that loses isPolygonal on the way
\* down to the ring.
RECURSIVE immutablyRemovePositionDropsFlag(_, _, _, _)
immutablyRemovePositionDropsFlag(h, coordinates, positionIndexes, isPolygonal) ==
    IF Len(positionIndexes) = 0 THEN Throw(h, InvalidArgument)
    ELSE IF Len(positionIndexes) = 1
    THEN RemoveFromArray(h, coordinates, positionIndexes[1], isPolygonal)
    ELSE IF ~IsArray(h, coordinates) THEN Throw(h, TypeError)
    ELSE
    LET index == positionIndexes[1]
        head == Slice(Items(h, coordinates), 0, index)
        inner == immutablyRemovePositionDropsFlag(h, GetIndex(h, coordinates, index),
                                                  Tail(positionIndexes), FALSE)
    IN  IF inner.err # "" THEN inner
        ELSE Alloc(inner.heap,
                   ArrayCell(head \o <<inner.val>>
                                  \o SliceFrom(Items(inner.heap, coordinates), index + 1)))

\* A variant of immutablyRemovePosition that returns `coordinates` as they
\* are for an empty positionIndexes instead of throwing.
RECURSIVE immutablyRemovePositionKeepsOnEmpty(_, _, _, _)
immutablyRemovePositionKeepsOnEmpty(h, coordinates, positionIndexes, isPolygonal) ==
    IF Len(positionIndexes) = 0 THEN Return(h, coordinates)
    ELSE IF Len(positionIndexes) = 1
    THEN RemoveFromArray(h, coordinates, positionIndexes[1], isPolygonal)
    ELSE IF ~IsArray(h, coordinates) THEN Throw(h, TypeError)
    ELSE
    LET index == positionIndexes[1]
        head == Slice(Items(h, coordinates), 0, index)
        inner == immutablyRemovePositionKeepsOnEmpty(h, GetIndex(h, coordinates, index),
                                                     Tail(positionIndexes), isPolygonal)
    IN  IF inner.err # "" THEN inner
        ELSE Alloc(inner.heap,
                   ArrayCell(head \o <<inner.val>>
                                  \o SliceFrom(Items(inner.heap, coordinates), index + 1)))

RECURSIVE immutablyRemovePosition(_, _, _, _)
immutablyRemovePosition(h, coordinates, positionIndexes, isPolygonal) ==
    IF Len(positionIndexes) = 0 THEN Throw(h, InvalidArgument)
    ELSE IF Len(positionIndexes) = 1
    THEN RemoveFromArray(h, coordinates, positionIndexes[1], isPolygonal)
    ELSE IF ~IsArray(h, coordinates) THEN Throw(h, TypeError)
    ELSE
    LET index == positionIndexes[1]
        head == Slice(Items(h, coordinates), 0, index)
        inner == immutablyRemovePosition(h, GetIndex(h, coordinates, index),
                                         Tail(positionIndexes), isPolygonal)
    IN  IF inner.err # "" THEN inner
        ELSE Alloc(inner.heap,
                   ArrayCell(head \o <<inner.val>>
                                  \o SliceFrom(Items(inner.heap, coordinates), index + 1)))

\* A variant of IsPolygonal that takes every geometry for a polygon.
IsPolygonalAlways(h, featureToUpdate) == TRUE

\* A variant of IsPolygonal that does not count a MultiPolygon.
IsPolygonalOnlyPolygon(h, featureToUpdate) ==
    GetField(h, GetField(h, featureToUpdate, "geometry"), "type") = JSString("Polygon")

\* featureToUpdate.geometry.type === 'Polygon' || ... === 'MultiPolygon'
IsPolygonal(h, featureToUpdate) ==
    LET type == GetField(h, GetField(h, featureToUpdate, "geometry"), "type")
    IN  type = JSString("Polygon") \/ type = JSString("MultiPolygon")

\* Reading a property of undefined is a TypeError: the feature must be
\* there and must have a geometry for the two edits to get as far as the
\* coordinates.
HasGeometry(h, featureToUpdate) ==
    /\ IsObject(h, featureToUpdate)
    /\ IsObject(h, GetField(h, featureToUpdate, "geometry"))

\* new EditableFeatureCollection(featureCollection)
NewEditor(h, featureCollection) ==
    Alloc(h, ObjectCell([featureCollection |-> featureCollection]))

\* A variant of UpdatedCollection whose updatedFeature does not spread
\* featureToUpdate: it has the geometry and nothing else.
UpdatedCollectionNoSpread(h, this, featureIndex, updatedCoordinates) ==
    LET featureCollection == getObject(h, this)
        features == GetField(h, featureCollection, "features")
        featureToUpdate == GetIndex(h, features, featureIndex)
        geometry == GetField(h, featureToUpdate, "geometry")
        updatedGeometry ==
            Alloc(h, ObjectCell(Spread(h[geometry.n].fields,
                                       "coordinates", updatedCoordinates)))
        updatedFeature ==
            Alloc(updatedGeometry.heap,
                  ObjectCell([geometry |-> updatedGeometry.val]))
        updatedFeatures ==
            Alloc(updatedFeature.heap,
                  ArrayCell(Slice(Items(h, features), 0, featureIndex)
                              \o <<updatedFeature.val>>
                              \o SliceFrom(Items(h, features), featureIndex + 1)))
        updatedFeatureCollection ==
            Alloc(updatedFeatures.heap,
                  ObjectCell(Spread(h[featureCollection.n].fields,
                                    "features", updatedFeatures.val)))
    IN  NewEditor(updatedFeatureCollection.heap, updatedFeatureCollection.val)

\* updatedFeature, updatedFeatureCollection and the new
\* EditableFeatureCollection of replacePosition and of removePosition
UpdatedCollection(h, this, featureIndex, updatedCoordinates) ==
    LET featureCollection == getObject(h, this)
        features == GetField(h, featureCollection, "features")
        featureToUpdate == GetIndex(h, features, featureIndex)
        geometry == GetField(h, featureToUpdate, "geometry")
        updatedGeometry ==
            Alloc(h, ObjectCell(Spread(h[geometry.n].fields,
                                       "coordinates", updatedCoordinates)))
        updatedFeature ==
            Alloc(updatedGeometry.heap,
                  ObjectCell(Spread(h[featureToUpdate.n].fields,
                                    "geometry", updatedGeometry.val)))
        updatedFeatures ==
            Alloc(updatedFeature.heap,
                  ArrayCell(Slice(Items(h, features), 0, featureIndex)
                              \o <<updatedFeature.val>>
                              \o SliceFrom(Items(h, features), featureIndex + 1)))
        updatedFeatureCollection ==
            Alloc(updatedFeatures.heap,
                  ObjectCell(Spread(h[featureCollection.n].fields,
                                    "features", updatedFeatures.val)))
    IN  NewEditor(updatedFeatureCollection.heap, updatedFeatureCollection.val)

replacePosition(h, this, featureIndex, positionIndexes, updatedPosition) ==
    LET featureToUpdate ==
            GetIndex(h, GetField(h, getObject(h, this), "features"), featureIndex)
    IN  IF ~HasGeometry(h, featureToUpdate) THEN Throw(h, TypeError)
        ELSE
        LET updatedCoordinates ==
                immutablyReplacePosition(
                    h,
                    GetField(h, GetField(h, featureToUpdate, "geometry"), "coordinates"),
                    positionIndexes, updatedPosition,
                    IsPolygonal(h, featureToUpdate))
        IN  IF updatedCoordinates.err # "" THEN updatedCoordinates
            ELSE UpdatedCollection(updatedCoordinates.heap, this, featureIndex,
                                   updatedCoordinates.val)

removePosition(h, this, featureIndex, positionIndexes) ==
    LET featureToUpdate ==
            GetIndex(h, GetField(h, getObject(h, this), "features"), featureIndex)
    IN  IF ~HasGeometry(h, featureToUpdate) THEN Throw(h, TypeError)
        ELSE
        LET updatedCoordinates ==
                immutablyRemovePosition(
                    h,
                    GetField(h, GetField(h, featureToUpdate, "geometry"), "coordinates"),
                    positionIndexes, IsPolygonal(h, featureToUpdate))
        IN  IF updatedCoordinates.err # "" THEN updatedCoordinates
            ELSE UpdatedCollection(updatedCoordinates.heap, this, featureIndex,
                                   updatedCoordinates.val)

\* A variant of MapHandles that numbers the positions from 1.
MapHandlesOneBased(items, prefix) ==
    [i \in 1..Len(items) |->
        [position |-> items[i], positionIndexes |-> Append(prefix, i)]]

\* array.map((position, index) => ({position, positionIndexes: [...prefix, index]}))
MapHandles(items, prefix) ==
    [i \in 1..Len(items) |->
        [position |-> items[i], positionIndexes |-> Append(prefix, i - 1)]]

\* A variant of FlattenLines that leaves a out of the positionIndexes.
RECURSIVE FlattenLinesNoIndex(_, _, _, _, _)
FlattenLinesNoIndex(h, coordinates, prefix, a, positions) ==
    IF a >= Len(Items(h, coordinates)) THEN Return(h, positions)
    ELSE IF ~IsArray(h, GetIndex(h, coordinates, a)) THEN Throw(h, TypeError)
    ELSE FlattenLinesNoIndex(h, coordinates, prefix, a + 1,
                             positions \o MapHandles(Items(h, GetIndex(h, coordinates, a)),
                                                     prefix))

\* the loop over a: the handles of coordinates[a], coordinates[a + 1], ...
\* appended to `positions`; coordinates[a].map is a TypeError when
\* coordinates[a] is no array
RECURSIVE FlattenLines(_, _, _, _, _)
FlattenLines(h, coordinates, prefix, a, positions) ==
    IF a >= Len(Items(h, coordinates)) THEN Return(h, positions)
    ELSE IF ~IsArray(h, GetIndex(h, coordinates, a)) THEN Throw(h, TypeError)
    ELSE FlattenLines(h, coordinates, prefix, a + 1,
                      positions \o MapHandles(Items(h, GetIndex(h, coordinates, a)),
                                              Append(prefix, a)))

\* A variant of FlattenPolygons that leaves the polygon's index out of the
\* positionIndexes.
RECURSIVE FlattenPolygonsNoPrefix(_, _, _, _)
FlattenPolygonsNoPrefix(h, coordinates, a, positions) ==
    IF a >= Len(Items(h, coordinates)) THEN Return(h, positions)
    ELSE IF ~IsArray(h, GetIndex(h, coordinates, a)) THEN Throw(h, TypeError)
    ELSE LET rings == FlattenLines(h, GetIndex(h, coordinates, a), <<>>, 0, positions)
         IN  IF rings.err # "" THEN rings
             ELSE FlattenPolygonsNoPrefix(h, coordinates, a + 1, rings.val)

\* the loops over a and b of a MultiPolygon
RECURSIVE FlattenPolygons(_, _, _, _)
FlattenPolygons(h, coordinates, a, positions) ==
    IF a >= Len(Items(h, coordinates)) THEN Return(h, positions)
    ELSE IF ~IsArray(h, GetIndex(h, coordinates, a)) THEN Throw(h, TypeError)
    ELSE LET rings == FlattenLines(h, GetIndex(h, coordinates, a), <<a>>, 0, positions)
         IN  IF rings.err # "" THEN rings
             ELSE FlattenPolygons(h, coordinates, a + 1, rings.val)

UnhandledType(type) == "Unhandled geometry type: " \o type

\* A variant of flattenPositions that returns no handles for a geometry of
\* another type instead of throwing.
flattenPositionsDefaultEmpty(h, geometry) ==
    LET type == GetField(h, geometry, "type").s
        coordinates == GetField(h, geometry, "coordinates")
    IN  IF type = "Point"
        THEN Return(h, <<[position |-> coordinates, positionIndexes |-> <<>>]>>)
        ELSE IF type \in {"MultiPoint", "LineString"}
        THEN IF ~IsArray(h, coordinates) THEN Throw(h, TypeError)
             ELSE Return(h, MapHandles(Items(h, coordinates), <<>>))
        ELSE IF type \in {"Polygon", "MultiLineString"}
        THEN IF ~IsArray(h, coordinates) THEN Throw(h, TypeError)
             ELSE FlattenLines(h, coordinates, <<>>, 0, <<>>)
        ELSE IF type = "MultiPolygon"
        THEN IF ~IsArray(h, coordinates) THEN Throw(h, TypeError)
             ELSE FlattenPolygons(h, coordinates, 0, <<>>)
        ELSE Return(h, <<>>)

\* The array of handles returned is given as a sequence of records
\* [position, positionIndexes]; positionIndexes holds the 0-based indexes.
flattenPositions(h, geometry) ==
    LET type == GetField(h, geometry, "type").s
        coordinates == GetField(h, geometry, "coordinates")
    IN  IF type = "Point"
        THEN Return(h, <<[position |-> coordinates, positionIndexes |-> <<>>]>>)
        ELSE IF type \in {"MultiPoint", "LineString"}
        THEN IF ~IsArray(h, coordinates) THEN Throw(h, TypeError)
             ELSE Return(h, MapHandles(Items(h, coordinates), <<>>))
        ELSE IF type \in {"Polygon", "MultiLineString"}
        THEN IF ~IsArray(h, coordinates) THEN Throw(h, TypeError)
             ELSE FlattenLines(h, coordinates, <<>>, 0, <<>>)
        ELSE IF type = "MultiPolygon"
        THEN IF ~IsArray(h, coordinates) THEN Throw(h, TypeError)
             ELSE FlattenPolygons(h, coordinates, 0, <<>>)
        ELSE Throw(h, UnhandledType(type))

getEditHandles(h, this, featureIndex) ==
    LET feature ==
            GetIndex(h, GetField(h, getObject(h, this), "features"), featureIndex)
    IN  IF ~HasGeometry(h, feature) THEN Throw(h, TypeError)
        ELSE flattenPositions(h, GetField(h, feature, "geometry"))

----------------------------------------------------------------------------
(* The collections an editor is constructed from.                          *)

Vertex(k) ==
    CASE k = 1 -> <<0, 0>>
      [] k = 2 -> <<1, 0>>
      [] k = 3 -> <<1, 1>>
      [] k = 4 -> <<0, 1>>
      [] OTHER -> <<k, k>>

\* the positions a replacePosition call may be given
PositionPool(k) ==
    CASE k = 1 -> <<5, 5>>
      [] k = 2 -> <<0, 0>>
      [] OTHER -> <<k, 0>>

NewPositions == {JSPosition(PositionPool(k)) : k \in 1..NumPositions}

DString(s) == DValue(JSString(s))
DPosition(k) == DValue(JSPosition(Vertex(k)))

\* a line of the vertices from..to
Line(from, to) == DArray([i \in 1..(to - from + 1) |-> DPosition(from + i - 1)])

\* a closed ring of n positions: n - 1 vertices and the first one again
Ring(n) == DArray([i \in 1..n |-> IF i = n THEN DPosition(1) ELSE DPosition(i)])

Geometry(type, coordinates) ==
    DObject([type |-> DString(type), coordinates |-> coordinates])

Feature(name, geometry) ==
    DObject([type |-> DString("Feature"),
             properties |-> DObject([name |-> DString(name)]),
             geometry |-> geometry])

FeatureCollection(features) ==
    DObject([type |-> DString("FeatureCollection"),
             name |-> DString("collection"),
             features |-> DArray(features)])

PointGeometry == Geometry("Point", DPosition(1))
MultiPointGeometry == Geometry("MultiPoint", Line(1, 2))
LineStringGeometry == Geometry("LineString", Line(1, 3))
MultiLineStringGeometry == Geometry("MultiLineString", DArray(<<Line(1, 2), Line(3, 4)>>))
PolygonGeometry(rings) == Geometry("Polygon", DArray(rings))
MultiPolygonGeometry(polygons) ==
    Geometry("MultiPolygon", DArray([i \in 1..Len(polygons) |-> DArray(polygons[i])]))
GeometryCollection ==
    DObject([type |-> DString("GeometryCollection"),
             geometries |-> DArray(<<PointGeometry>>)])

SampleGeometries ==
    {PointGeometry, MultiPointGeometry, LineStringGeometry, MultiLineStringGeometry,
     MultiPolygonGeometry(<<<<Ring(4)>>, <<Ring(4)>>>>),
     MultiPolygonGeometry(<<<<Ring(5)>>>>),
     GeometryCollection}
    \cup {PolygonGeometry(<<Ring(n)>>) : n \in 4..MaxRing}

\* one feature of every sample geometry, and two collections of two features
InitialCollections ==
    {FeatureCollection(<<Feature("first", g)>>) : g \in SampleGeometries}
    \cup {FeatureCollection(<<Feature("first", PolygonGeometry(<<Ring(4)>>)),
                              Feature("second", MultiPointGeometry)>>),
          FeatureCollection(<<Feature("first", PointGeometry),
                              Feature("second", MultiLineStringGeometry)>>)}

----------------------------------------------------------------------------
(* EditableLayer.  A function of the class is an operator on the layer     *)
(* record w; a nullable property is Null or Some(value), and               *)
(* pointerHandlers is the identity of the set of bound functions, 0 for    *)
(* null.                                                                   *)

MINIMUM_POINTER_MOVE_THRESHOLD_PIXELS == 7

Null == [isNull |-> TRUE, v |-> <<>>]
Some(v) == [isNull |-> FALSE, v |-> v]
NoHandlers == 0

\* this.setState({_editableLayerState: {...}}) of initializeState
initializeState ==
    [pointerHandlers |-> NoHandlers,
     pointerDownPicks |-> Null,
     pointerDownScreenCoords |-> Null,
     pointerDownGroundCoords |-> Null,
     isDragging |-> FALSE]

Abs(n) == IF n < 0 THEN -n ELSE n

movedEnoughForDrag(screenCoords1, screenCoords2) ==
    \/ Abs(screenCoords1[1] - screenCoords2[1]) > MINIMUM_POINTER_MOVE_THRESHOLD_PIXELS
    \/ Abs(screenCoords1[2] - screenCoords2[2]) > MINIMUM_POINTER_MOVE_THRESHOLD_PIXELS

\* this.context.gl.canvas.getBoundingClientRect(): where the canvas is
CanvasRect == [x |-> 10, y |-> 20]

getScreenCoords(pointerEvent) ==
    <<pointerEvent.clientX - CanvasRect.x, pointerEvent.clientY - CanvasRect.y>>

\* this.context.viewport.unproject: some map from the screen to the ground
unproject(xy) == <<2 * xy[1], 2 * xy[2]>>

getGroundCoords(screenCoords) == unproject(<<screenCoords[1], screenCoords[2]>>)

\* canvas.removeEventListener(type, handlers.<listener>)
removeEventListener(listeners, type, handlers) ==
    SelectSeq(listeners, LAMBDA l : ~(l.type = type /\ l.handlers = handlers))

\* canvas.addEventListener(type, handlers.<listener>): a listener that is
\* there already is not added again
addEventListener(listeners, type, handlers) ==
    IF \E k \in 1..Len(listeners) :
            listeners[k] = [type |-> type, handlers |-> handlers]
    THEN listeners
    ELSE Append(listeners, [type |-> type, handlers |-> handlers])

\* A variant of removePointerHandlers that forgets the handlers and leaves
\* them on the canvas.
removePointerHandlersLeavesListeners(w) ==
    [w EXCEPT !.state.pointerHandlers = NoHandlers]

removePointerHandlers(w) ==
    LET handlers == w.state.pointerHandlers
        removed ==
            IF handlers # NoHandlers
            THEN removeEventListener(
                     removeEventListener(
                         removeEventListener(
                             removeEventListener(w.listeners, "pointermove", handlers),
                             "pointerdown", handlers),
                         "pointerup", handlers),
                     "dblclick", handlers)
            ELSE w.listeners
    IN  [w EXCEPT !.listeners = removed, !.state.pointerHandlers = NoHandlers]

\* the functions bind returns are new ones: an identity no listener on the
\* canvas has
BoundHandlers(w) ==
    CHOOSE n \in 1..(Len(w.listeners) + 1) :
        /\ \A k \in 1..Len(w.listeners) : w.listeners[k].handlers # n
        /\ \A m \in 1..(n - 1) : \E k \in 1..Len(w.listeners) : w.listeners[k].handlers = m

addPointerHandlers(w) ==
    LET handlers == BoundHandlers(w)
    IN  [w EXCEPT
            !.state.pointerHandlers = handlers,
            !.listeners =
                addEventListener(
                    addEventListener(
                        addEventListener(
                            addEventListener(@, "pointermove", handlers),
                            "pointerdown", handlers),
                        "pointerup", handlers),
                    "dblclick", handlers)]

finalizeState(w) == removePointerHandlers(w)

updateState(w) == addPointerHandlers(removePointerHandlers(w))

\* a call of one of the overridable event handlers, which do nothing
Fire(w, handler) == [w EXCEPT !.fired = Append(@, handler)]

onDoubleClickListener(w, event) == Fire(w, "onDoubleClick")

\* picks is what layerManager.pickObject returns at the event's position
onPointerDownListener(w, event, picks) ==
    LET screenCoords == getScreenCoords(event)
        groundCoords == getGroundCoords(screenCoords)
    IN  Fire([w EXCEPT !.state.pointerDownScreenCoords = Some(screenCoords),
                       !.state.pointerDownGroundCoords = Some(groundCoords),
                       !.state.pointerDownPicks = Some(picks),
                       !.state.isDragging = FALSE],
             "onPointerDown")

onPointerMoveListener(w, event) ==
    LET screenCoords == getScreenCoords(event)
        pointerDownPicks == w.state.pointerDownPicks
        pointerDownScreenCoords == w.state.pointerDownScreenCoords
    IN  IF /\ ~pointerDownPicks.isNull
           /\ Len(pointerDownPicks.v) > 0
           /\ ~w.state.isDragging
           /\ movedEnoughForDrag(pointerDownScreenCoords.v, screenCoords)
        THEN Fire([Fire(w, "onStartDragging") EXCEPT !.state.isDragging = TRUE],
                  "onPointerMove")
        ELSE Fire(w, "onPointerMove")

\* A variant of onPointerUpListener that does not look whether a pointer
\* down is pending.
onPointerUpListenerNoGuard(w, event) ==
    LET fired == IF w.state.isDragging THEN Fire(w, "onStopDragging")
                 ELSE Fire(w, "onClick")
    IN  Fire([fired EXCEPT !.state.pointerDownScreenCoords = Null,
                           !.state.pointerDownGroundCoords = Null,
                           !.state.pointerDownPicks = Null,
                           !.state.isDragging = FALSE],
             "onPointerUp")

onPointerUpListener(w, event) ==
    LET screenCoords == getScreenCoords(event)
        pointerDownScreenCoords == w.state.pointerDownScreenCoords
    IN  IF pointerDownScreenCoords.isNull THEN w
        ELSE
        LET fired ==
                IF w.state.isDragging THEN Fire(w, "onStopDragging")
                ELSE IF ~movedEnoughForDrag(pointerDownScreenCoords.v, screenCoords)
                THEN Fire(w, "onClick")
                ELSE w
        IN  Fire([fired EXCEPT !.state.pointerDownScreenCoords = Null,
                               !.state.pointerDownGroundCoords = Null,
                               !.state.pointerDownPicks = Null,
                               !.state.isDragging = FALSE],
                 "onPointerUp")

\* the listener of the layer for an event of the given type
Listener(w, type, event, picks) ==
    CASE type = "pointerdown" -> onPointerDownListener(w, event, picks)
      [] type = "pointermove" -> onPointerMoveListener(w, event)
      [] type = "pointerup" -> onPointerUpListener(w, event)
      [] type = "dblclick" -> onDoubleClickListener(w, event)

\* the canvas dispatches an event: the listeners[k], listeners[k + 1], ...
\* that were registered for its type are called in turn
RECURSIVE Dispatch(_, _, _, _, _, _)
Dispatch(w, listeners, k, type, event, picks) ==
    IF k > Len(listeners) THEN w
    ELSE IF listeners[k].type # type
    THEN Dispatch(w, listeners, k + 1, type, event, picks)
    ELSE Dispatch(Listener(w, type, event, picks), listeners, k + 1, type, event, picks)

----------------------------------------------------------------------------
(* The state machine: an application that holds one editor, calls it, and  *)
(* goes on with the editor a successful edit returned.                     *)

\* the layer after initializeState, before its first updateState
LayerInit ==
    /\ layer = [state |-> initializeState, listeners |-> <<>>, fired |-> <<>>]
    /\ step = [kind |-> "initializeState", screenCoords |-> <<>>, picks |-> <<>>]
    /\ previous = [state |-> initializeState, listeners |-> <<>>, fired |-> <<>>]
    /\ log = <<>>

Init ==
    /\ LayerInit
    /\ \E collection \in InitialCollections :
        /\ heap = Cells(DObject([featureCollection |-> collection]))
        /\ editor = JSRef(1)
        /\ before = collection
        /\ after = collection
        /\ shared = {}
        /\ call = [op |-> "constructor", featureIndex |-> 0,
                   positionIndexes |-> <<>>, updatedPosition |-> <<>>]
        /\ error = ""
        /\ handles = <<>>

\* the features of the collection `this` wraps
Features(h, this) == Items(h, GetField(h, getObject(h, this), "features"))

\* the indexes at which two editors hold the very same feature object
SameFeatures(h, this, that) ==
    {i \in 0..(Min(Len(Features(h, this)), Len(Features(h, that))) - 1) :
        Features(h, this)[i + 1] = Features(h, that)[i + 1]}

\* the state after a call on `editor` that ended as `result` says: the
\* application keeps the editor returned, or the one it had when the call threw
AfterEdit(result, theCall) ==
    /\ heap' = Collect(result.heap, IF result.err = "" THEN result.val ELSE editor)
    /\ editor' = JSRef(1)
    /\ before' = Deep(heap, getObject(heap, editor))
    /\ after' = Deep(result.heap, getObject(result.heap, editor))
    /\ shared' = IF result.err = "" THEN SameFeatures(result.heap, result.val, editor)
                 ELSE {}
    /\ call' = theCall
    /\ error' = result.err
    /\ handles' = <<>>
    /\ UNCHANGED layerVars

ReplacePosition(featureIndex, positionIndexes, updatedPosition) ==
    AfterEdit(replacePosition(heap, editor, featureIndex, positionIndexes,
                              updatedPosition),
              [op |-> "replacePosition", featureIndex |-> featureIndex,
               positionIndexes |-> positionIndexes,
               updatedPosition |-> updatedPosition.p])

RemovePosition(featureIndex, positionIndexes) ==
    AfterEdit(removePosition(heap, editor, featureIndex, positionIndexes),
              [op |-> "removePosition", featureIndex |-> featureIndex,
               positionIndexes |-> positionIndexes, updatedPosition |-> <<>>])

GetEditHandles(featureIndex) ==
    LET result == getEditHandles(heap, editor, featureIndex)
    IN  /\ before' = Deep(heap, getObject(heap, editor))
        /\ after' = Deep(result.heap, getObject(result.heap, editor))
        /\ shared' = {}
        /\ call' = [op |-> "getEditHandles", featureIndex |-> featureIndex,
                    positionIndexes |-> <<>>, updatedPosition |-> <<>>]
        /\ error' = result.err
        /\ handles' = IF result.err = "" THEN result.val ELSE <<>>
        /\ UNCHANGED <<heap, editor>>
        /\ UNCHANGED layerVars

FeatureIndexes == 0..(Len(Features(heap, editor)) - 1)

\* the paths that address a position of the coordinates `v`
RECURSIVE VertexPaths(_, _)
VertexPaths(h, v) ==
    IF v.t = "position" THEN {<<>>}
    ELSE IF v.t = "ref" /\ h[v.n].kind = "array"
    THEN UNION {{<<i - 1>> \o path : path \in VertexPaths(h, h[v.n].items[i])} :
                    i \in 1..Len(h[v.n].items)}
    ELSE {}

\* the paths that address a position of feature featureIndex
FeaturePaths(featureIndex) ==
    VertexPaths(heap, GetField(heap, GetField(heap, Features(heap, editor)[featureIndex + 1],
                                              "geometry"),
                               "coordinates"))

Next ==
    \/ \E featureIndex \in FeatureIndexes :
        \E positionIndexes \in FeaturePaths(featureIndex) :
            \E updatedPosition \in NewPositions :
                ReplacePosition(featureIndex, positionIndexes, updatedPosition)
    \/ \E featureIndex \in FeatureIndexes :
        \E positionIndexes \in FeaturePaths(featureIndex) :
            RemovePosition(featureIndex, positionIndexes)
    \/ \E featureIndex \in FeatureIndexes :
        GetEditHandles(featureIndex)

Spec == Init /\ [][Next]_vars

\* Any arguments at all, on an editor that was just constructed.
AnyIndexes == (-1)..MaxIndex

AnyPaths == UNION {[1..n -> AnyIndexes] : n \in 0..MaxPathLen}

NextAnyInput ==
    /\ call.op = "constructor"
    /\ \/ \E featureIndex \in AnyIndexes :
            \E positionIndexes \in AnyPaths :
                \E updatedPosition \in NewPositions :
                    ReplacePosition(featureIndex, positionIndexes, updatedPosition)
       \/ \E featureIndex \in AnyIndexes :
            \E positionIndexes \in AnyPaths :
                RemovePosition(featureIndex, positionIndexes)
       \/ \E featureIndex \in AnyIndexes :
            GetEditHandles(featureIndex)

SpecAnyInput == Init /\ [][NextAnyInput]_vars

----------------------------------------------------------------------------
(* The state machine of the layer: deck.gl calls updateState and           *)
(* finalizeState, and the canvas calls the listeners that are registered   *)
(* on it when a pointer event arrives.                                     *)

\* no editor is in use
NoEditor ==
    /\ heap = <<>>
    /\ editor = JSUndefined
    /\ before = DValue(JSUndefined)
    /\ after = DValue(JSUndefined)
    /\ shared = {}
    /\ call = [op |-> "none", featureIndex |-> 0,
               positionIndexes |-> <<>>, updatedPosition |-> <<>>]
    /\ error = ""
    /\ handles = <<>>

InitLayer == LayerInit /\ NoEditor

\* distances around the threshold
Offsets ==
    {0, MINIMUM_POINTER_MOVE_THRESHOLD_PIXELS - 1, MINIMUM_POINTER_MOVE_THRESHOLD_PIXELS,
     MINIMUM_POINTER_MOVE_THRESHOLD_PIXELS + 1}

\* positions on the canvas: along the x axis and along the y axis
ScreenPositions == {<<d, 0>> : d \in Offsets} \cup {<<0, d>> : d \in Offsets}

\* the pointer events at these positions
PointerEvents ==
    {[clientX |-> CanvasRect.x + xy[1], clientY |-> CanvasRect.y + xy[2]] :
        xy \in ScreenPositions}

\* what pickObject may return: nothing, or one object of the layer
Picks == {<<>>, <<[index |-> 0]>>}

DragCallbacks == {"onStartDragging", "onStopDragging", "onClick"}

IsDragCallback(handler) == handler \in DragCallbacks

Finalized == step.kind = "finalizeState"

Registered(type) == \E k \in 1..Len(layer.listeners) : layer.listeners[k].type = type

\* the layer after a step, and what the step was
AfterStep(w, kind, screenCoords, picks) ==
    /\ layer' = w
    /\ step' = [kind |-> kind, screenCoords |-> screenCoords, picks |-> picks]
    /\ previous' = layer
    /\ log' = log \o SelectSeq(w.fired, IsDragCallback)
    /\ UNCHANGED editorVars

UpdateState ==
    /\ ~Finalized
    /\ AfterStep(updateState([layer EXCEPT !.fired = <<>>]), "updateState", <<>>, <<>>)

FinalizeState ==
    /\ ~Finalized
    /\ AfterStep(finalizeState([layer EXCEPT !.fired = <<>>]), "finalizeState", <<>>, <<>>)

\* an event of the given type arrives at the canvas
PointerEvent(type, event, picks) ==
    /\ Registered(type)
    /\ Len(log) < MaxLog
    /\ AfterStep(Dispatch([layer EXCEPT !.fired = <<>>], layer.listeners, 1,
                          type, event, picks),
                 type, getScreenCoords(event), picks)

NextLayer ==
    \/ UpdateState
    \/ FinalizeState
    \/ \E event \in PointerEvents : \E picks \in Picks :
            PointerEvent("pointerdown", event, picks)
    \/ \E event \in PointerEvents : PointerEvent("pointermove", event, <<>>)
    \/ \E event \in PointerEvents : PointerEvent("pointerup", event, <<>>)
    \/ \E event \in PointerEvents : PointerEvent("dblclick", event, <<>>)

SpecLayer == InitLayer /\ [][NextLayer]_vars

----------------------------------------------------------------------------
(* What the properties below speak of, read from deep values.              *)

\* the collection the application's editor wraps now
Current == Deep(heap, getObject(heap, editor))

Front(seq) == SubSeq(seq, 1, Len(seq) - 1)
Range(seq) == {seq[k] : k \in 1..Len(seq)}
Last(seq) == seq[Len(seq)]

IsEdit == call.op \in {"replacePosition", "removePosition"}

FeaturesOf(collection) == collection.fields.features.items
GeometryOf(collection, featureIndex) ==
    FeaturesOf(collection)[featureIndex + 1].fields.geometry
TypeOf(geometry) == geometry.fields.type.s
CoordinatesOf(geometry) == geometry.fields.coordinates

PolygonalTypes == {"Polygon", "MultiPolygon"}

\* the nesting depth of the coordinates of each supported geometry type
DepthOf(type) ==
    CASE type = "Point" -> 0
      [] type \in {"MultiPoint", "LineString"} -> 1
      [] type \in {"Polygon", "MultiLineString"} -> 2
      [] type = "MultiPolygon" -> 3

SupportedTypes ==
    {"Point", "MultiPoint", "LineString", "MultiLineString", "Polygon", "MultiPolygon"}

\* the rings of a geometry: the innermost arrays of a Polygon or MultiPolygon
RingsOf(geometry) ==
    IF TypeOf(geometry) = "Polygon" THEN Range(CoordinatesOf(geometry).items)
    ELSE IF TypeOf(geometry) = "MultiPolygon"
    THEN UNION {Range(polygon.items) : polygon \in Range(CoordinatesOf(geometry).items)}
    ELSE {}

AllRings(collection) ==
    UNION {RingsOf(feature.fields.geometry) : feature \in Range(FeaturesOf(collection))}

IsClosed(ring) == Len(ring.items) > 0 /\ ring.items[1] = Last(ring.items)

\* the deep value a path of in-range indexes leads to
RECURSIVE At(_, _)
At(node, path) ==
    IF path = <<>> THEN node ELSE At(node.items[path[1] + 1], Tail(path))

\* the feature the last call addressed, as it was before the call
CalledGeometry == GeometryOf(before, call.featureIndex)

\* the array that holds the position the last call addressed, before the call
CalledArray == At(CoordinatesOf(CalledGeometry), Front(call.positionIndexes))

CalledPolygonal ==
    /\ IsEdit
    /\ call.positionIndexes # <<>>
    /\ TypeOf(CalledGeometry) \in PolygonalTypes

----------------------------------------------------------------------------
(* C1.  Closed-ring invariant: the initial rings are closed and have at    *)
(* least 4 positions; after any sequence of replacePosition and            *)
(* removePosition calls that address an existing position, every ring of   *)
(* every Polygon and MultiPolygon has its first position equal to its      *)
(* last one.                                                               *)
C1_RingsStayClosed == \A ring \in AllRings(Current) : IsClosed(ring)

\* the first or the last position of a ring was removed, and the call succeeded
C1_Witness ==
    /\ CalledPolygonal
    /\ call.op = "removePosition"
    /\ error = ""
    /\ Last(call.positionIndexes) \in {0, Len(CalledArray.items) - 1}
    /\ Current # before

(* C2.  Minimum ring size: after any sequence of replacePosition and       *)
(* removePosition calls that address an existing position, successful or   *)
(* rejected, every ring still has at least 4 positions; a removePosition   *)
(* that would leave a ring with fewer than 4 positions is rejected.        *)
C2_RingsKeepFourPositions ==
    /\ \A ring \in AllRings(Current) : Len(ring.items) >= 4
    /\ (CalledPolygonal /\ call.op = "removePosition"
            /\ Len(CalledArray.items) - 1 < 4)
        => error # "" /\ Current = before

\* a removal from a ring of 5 positions went through and left a ring of 4
C2_Witness ==
    /\ CalledPolygonal
    /\ call.op = "removePosition"
    /\ Len(CalledArray.items) = 5
    /\ error = ""
    /\ \E ring \in AllRings(Current) : Len(ring.items) = 4

(* C3.  The receiver is immutable: whatever replacePosition or             *)
(* removePosition call is made on an editor, and whether it returns a new  *)
(* editor or throws, getObject() of that editor is after the call what it  *)
(* was before; an edit shows only in the editor returned.                  *)
C3_ReceiverUnchanged == IsEdit => after = before

\* an edit went through: the editor returned differs, the receiver does not
C3_Witness == IsEdit /\ error = "" /\ Current # before /\ after = before

(* C4.  Frame of an edit: after replacePosition(i, ...) or                 *)
(* removePosition(i, ...) with i in range, the new collection has as many  *)
(* features as the original, every feature but i is the very feature of    *)
(* the original, the collection's other properties are unchanged, and      *)
(* feature i keeps its geometry type and all its properties but the        *)
(* geometry's coordinates.                                                 *)
SameBut(new, old, name) ==
    /\ DOMAIN new.fields = DOMAIN old.fields
    /\ \A f \in DOMAIN old.fields \ {name} : new.fields[f] = old.fields[f]

C4_EditFrame ==
    (IsEdit /\ error = "") =>
        LET i == call.featureIndex
            count == Len(FeaturesOf(before))
        IN  /\ Len(FeaturesOf(Current)) = count
            /\ \A j \in 0..(count - 1) :
                  j # i => /\ FeaturesOf(Current)[j + 1] = FeaturesOf(before)[j + 1]
                           /\ j \in shared
            /\ SameBut(Current, before, "features")
            /\ SameBut(FeaturesOf(Current)[i + 1], FeaturesOf(before)[i + 1], "geometry")
            /\ SameBut(GeometryOf(Current, i), GeometryOf(before, i), "coordinates")

\* an edit of one of two features went through
C4_Witness ==
    /\ IsEdit
    /\ error = ""
    /\ Len(FeaturesOf(before)) = 2
    /\ Current # before
    /\ shared = {1 - call.featureIndex}

(* C5.  Ring too small: removePosition that addresses any position of a    *)
(* Polygon or MultiPolygon ring of exactly 4 positions throws the          *)
(* ring-too-small error, returns no editor and leaves the collection as it *)
(* was.                                                                    *)
C5_TriangleRejected ==
    (CalledPolygonal /\ call.op = "removePosition" /\ Len(CalledArray.items) = 4)
        => error = RingTooSmall /\ Current = before /\ after = before

C5_Witness ==
    /\ CalledPolygonal
    /\ call.op = "removePosition"
    /\ Len(CalledArray.items) = 4
    /\ TypeOf(CalledGeometry) = "MultiPolygon"
    /\ error = RingTooSmall

(* C6.  The example ring [[0,0],[1,0],[1,1],[0,0]]: removePosition(0,      *)
(* [0, 0]) on a Polygon with that one ring throws the ring-too-small       *)
(* error; the ring keeps its 4 positions, closed, and no editor is         *)
(* returned.                                                               *)
ExampleRing ==
    DArray(<<DValue(JSPosition(<<0, 0>>)), DValue(JSPosition(<<1, 0>>)),
             DValue(JSPosition(<<1, 1>>)), DValue(JSPosition(<<0, 0>>))>>)

ExampleRemoval ==
    /\ call.op = "removePosition"
    /\ call.featureIndex = 0
    /\ call.positionIndexes = <<0, 0>>
    /\ GeometryOf(before, 0) = PolygonGeometry(<<ExampleRing>>)

C6_ExampleRemovalRejected ==
    ExampleRemoval =>
        /\ error = RingTooSmall
        /\ Current = before
        /\ At(CoordinatesOf(GeometryOf(Current, 0)), <<0>>) = ExampleRing

C6_Witness == ExampleRemoval /\ error = RingTooSmall /\ after = before

\* C6 as the specification states it: the removal yields a closed ring of
\* 3 positions.
C6_ExampleRemovalLeavesThree ==
    ExampleRemoval =>
        LET ring == At(CoordinatesOf(GeometryOf(Current, 0)), <<0>>)
        IN  error = "" /\ Len(ring.items) = 3 /\ IsClosed(ring)

(* C7.  Round trip through the handles: for each of the six supported      *)
(* geometry types and every handle {position, positionIndexes} that        *)
(* getEditHandles(i) returns, replacePosition(i, positionIndexes,          *)
(* position) succeeds and returns an editor whose collection is deeply     *)
(* equal to the original one.                                              *)
C7_HandleRoundTrip ==
    \A featureIndex \in FeatureIndexes :
        LET listed == getEditHandles(heap, editor, featureIndex)
        IN  listed.err = "" =>
                \A k \in 1..Len(listed.val) :
                    LET replaced == replacePosition(heap, editor, featureIndex,
                                                    listed.val[k].positionIndexes,
                                                    listed.val[k].position)
                    IN  /\ replaced.err = ""
                        /\ Deep(replaced.heap, getObject(replaced.heap, replaced.val))
                               = Current

\* the first position of a ring was replaced by the position it had
C7_Witness ==
    /\ CalledPolygonal
    /\ call.op = "replacePosition"
    /\ error = ""
    /\ Last(call.positionIndexes) = 0
    /\ CalledArray.items[1].p = call.updatedPosition
    /\ Current = before

----------------------------------------------------------------------------
(* Calls with any arguments.                                               *)

\* the call addressed a feature of the collection
CalledFeatureExists ==
    call.featureIndex \in 0..(Len(FeaturesOf(before)) - 1)

CalledSupported == CalledFeatureExists /\ TypeOf(CalledGeometry) \in SupportedTypes

\* every index of the path is an index of the array it is applied to
RECURSIVE Reaches(_, _)
Reaches(node, path) ==
    \/ path = <<>>
    \/ /\ node.t = "array"
       /\ path[1] \in 0..(Len(node.items) - 1)
       /\ Reaches(node.items[path[1] + 1], Tail(path))

\* an index of the path is outside the array it is applied to
RECURSIVE LeavesArray(_, _)
LeavesArray(node, path) ==
    /\ path # <<>>
    /\ node.t = "array"
    /\ \/ path[1] \notin 0..(Len(node.items) - 1)
       \/ LeavesArray(node.items[path[1] + 1], Tail(path))

\* the feature index is outside the collection, or the path is not as long as
\* the geometry is deep, or an index of it is outside its array
CalledOutOfRange ==
    \/ ~CalledFeatureExists
    \/ /\ CalledSupported
       /\ \/ Len(call.positionIndexes) # DepthOf(TypeOf(CalledGeometry))
          \/ LeavesArray(CoordinatesOf(CalledGeometry), call.positionIndexes)

\* the path ends at an array, short of a position
CalledPathRunsOut ==
    /\ CalledSupported
    /\ Reaches(CoordinatesOf(CalledGeometry), call.positionIndexes)
    /\ At(CoordinatesOf(CalledGeometry), call.positionIndexes).t = "array"

(* C8.  Out-of-range rejection, as the specification states it:            *)
(* replacePosition or removePosition with a feature index that is not in   *)
(* the collection, or a path that is not as long as the geometry is deep,  *)
(* or a path index that is not in the array it is applied to, throws and   *)
(* leaves the collection as it was; it never returns a collection.         *)
C8_OutOfRangeRejected ==
    (IsEdit /\ CalledOutOfRange) => error # "" /\ Current = before

----------------------------------------------------------------------------
(* The enumeration getEditHandles is compared with.                        *)

RECURSIVE Concat(_)
Concat(seqs) == IF seqs = <<>> THEN <<>> ELSE Head(seqs) \o Concat(Tail(seqs))

\* the paths of the given length into `node`, outermost index first, each
\* level in ascending order
RECURSIVE PathsInOrder(_, _)
PathsInOrder(node, depth) ==
    IF depth = 0 THEN <<(<<>>)>>
    ELSE Concat([i \in 1..Len(node.items) |->
                    LET inner == PathsInOrder(node.items[i], depth - 1)
                    IN  [k \in 1..Len(inner) |-> <<i - 1>> \o inner[k]]])

\* the number of positions under `node`
RECURSIVE CountPositions(_)
CountPositions(node) ==
    IF node.t = "position" THEN 1
    ELSE IF node.items = <<>> THEN 0
    ELSE CountPositions(Head(node.items)) + CountPositions(DArray(Tail(node.items)))

(* C10.  getEditHandles(i) on a supported geometry returns one handle for  *)
(* each position: positionIndexes of length 0 for a Point, 1 for a         *)
(* MultiPoint or LineString, 2 for a Polygon or MultiLineString, 3 for a   *)
(* MultiPolygon, in ascending order with the outermost index first; the    *)
(* handle's position is the one at its path, and there are as many handles *)
(* as positions.                                                           *)
C10_HandlesEnumeratePositions ==
    (call.op = "getEditHandles" /\ error = "") =>
        LET coordinates == CoordinatesOf(CalledGeometry)
            paths == PathsInOrder(coordinates, DepthOf(TypeOf(CalledGeometry)))
        IN  /\ Len(handles) = Len(paths)
            /\ Len(handles) = CountPositions(coordinates)
            /\ \A k \in 1..Len(paths) :
                  /\ handles[k].positionIndexes = paths[k]
                  /\ handles[k].position.t = "position"
                  /\ DValue(handles[k].position) = At(coordinates, paths[k])

\* the handles of a MultiPolygon of two polygons
C10_Witness ==
    /\ call.op = "getEditHandles"
    /\ error = ""
    /\ TypeOf(CalledGeometry) = "MultiPolygon"
    /\ Len(handles) > 4
    /\ handles[5].positionIndexes = <<1, 0, 0>>

(* C11.  No duplicate paths: the handles one getEditHandles call returns   *)
(* for a supported geometry have pairwise different positionIndexes, for   *)
(* the initial geometry and for the geometry after any sequence of         *)
(* successful edits.                                                       *)
C11_HandlePathsDiffer ==
    (call.op = "getEditHandles" /\ error = "") =>
        \A j, k \in 1..Len(handles) :
            handles[j].positionIndexes = handles[k].positionIndexes => j = k

\* the handles of a geometry of two lines that an edit has changed
C11_Witness ==
    /\ call.op = "getEditHandles"
    /\ error = ""
    /\ TypeOf(CalledGeometry) = "MultiLineString"
    /\ Len(CoordinatesOf(CalledGeometry).items) = 2
    /\ Len(handles) >= 2
    /\ Current \notin InitialCollections

(* C12.  Unsupported geometry type: getEditHandles on a feature whose      *)
(* geometry type is none of Point, MultiPoint, LineString,                 *)
(* MultiLineString, Polygon, MultiPolygon throws 'Unhandled geometry       *)
(* type: <type>' and returns no handles.                                   *)
C12_UnsupportedTypeThrows ==
    (call.op = "getEditHandles" /\ TypeOf(CalledGeometry) \notin SupportedTypes) =>
        error = UnhandledType(TypeOf(CalledGeometry)) /\ handles = <<>>

C12_Witness ==
    /\ call.op = "getEditHandles"
    /\ TypeOf(CalledGeometry) = "GeometryCollection"
    /\ error = "Unhandled geometry type: GeometryCollection"

----------------------------------------------------------------------------
(* The results the edits are compared with, built on deep values.          *)

\* `node` with `value` at the path
RECURSIVE Put(_, _, _)
Put(node, path, value) ==
    IF path = <<>> THEN value
    ELSE [node EXCEPT !.items[path[1] + 1] = Put(@, Tail(path), value)]

\* the collection with other coordinates for one feature
WithCoordinates(collection, featureIndex, coordinates) ==
    [collection EXCEPT
        !.fields.features.items[featureIndex + 1].fields.geometry.fields.coordinates
            = coordinates]

\* the sequence without its element k (counted from 0)
Without(items, k) == SubSeq(items, 1, k) \o SubSeq(items, k + 2, Len(items))

CalledCoordinates == CoordinatesOf(CalledGeometry)

(* C13.  Exact result of replacePosition with the path of a position: no   *)
(* array changes its length and the addressed slot holds updatedPosition;  *)
(* at the first or last index of a Polygon's or MultiPolygon's ring both   *)
(* the first and the last slot of that ring hold it; nothing else changes. *)
C13_ReplaceResult ==
    (call.op = "replacePosition") =>
        LET position == DValue(JSPosition(call.updatedPosition))
            path == call.positionIndexes
            one == Put(CalledCoordinates, path, position)
            expected ==
                IF CalledPolygonal
                    /\ Last(path) \in {0, Len(CalledArray.items) - 1}
                THEN Put(Put(CalledCoordinates, Front(path) \o <<0>>, position),
                         Front(path) \o <<Len(CalledArray.items) - 1>>, position)
                ELSE one
        IN  /\ error = ""
            /\ Current = WithCoordinates(before, call.featureIndex, expected)

\* the last position of a ring was replaced
C13_Witness ==
    /\ CalledPolygonal
    /\ call.op = "replacePosition"
    /\ error = ""
    /\ Last(call.positionIndexes) = Len(CalledArray.items) - 1
    /\ At(CoordinatesOf(GeometryOf(Current, call.featureIndex)),
          Front(call.positionIndexes)).items[1].p = call.updatedPosition
    /\ Current # before

C15_RemoveFromLineResult ==
    (call.op = "removePosition"
        /\ TypeOf(CalledGeometry) \in {"MultiPoint", "LineString", "MultiLineString"}) =>
        /\ error = ""
        /\ Current = WithCoordinates(before, call.featureIndex,
                                     Put(CalledCoordinates,
                                         Front(call.positionIndexes),
                                         DArray(Without(CalledArray.items,
                                                        Last(call.positionIndexes)))))

\* the first of fewer than 5 positions was removed and the last was not touched
C15_Witness ==
    /\ call.op = "removePosition"
    /\ TypeOf(CalledGeometry) = "LineString"
    /\ Len(CalledArray.items) = 3
    /\ Last(call.positionIndexes) = 0
    /\ error = ""
    /\ CoordinatesOf(GeometryOf(Current, call.featureIndex)).items
           = Tail(CalledArray.items)

----------------------------------------------------------------------------
(* What the properties of the layer speak of.                              *)

Fired(handler) == \E k \in 1..Len(layer.fired) : layer.fired[k] = handler

\* the pointer down that was pending when the last step began
PendingDown == ~previous.state.pointerDownScreenCoords.isNull

PendingPicked ==
    /\ ~previous.state.pointerDownPicks.isNull
    /\ Len(previous.state.pointerDownPicks.v) > 0

\* how far the last event is from the pending pointer down, on each axis
DistanceX == Abs(step.screenCoords[1] - previous.state.pointerDownScreenCoords.v[1])
DistanceY == Abs(step.screenCoords[2] - previous.state.pointerDownScreenCoords.v[2])

\* at least the threshold away on the x or the y axis
AtLeastThresholdAway ==
    \/ DistanceX >= MINIMUM_POINTER_MOVE_THRESHOLD_PIXELS
    \/ DistanceY >= MINIMUM_POINTER_MOVE_THRESHOLD_PIXELS

PointerStateCleared ==
    /\ layer.state.pointerDownScreenCoords.isNull
    /\ layer.state.pointerDownGroundCoords.isNull
    /\ layer.state.pointerDownPicks.isNull
    /\ ~layer.state.isDragging

(* C16.  Drag threshold, as the specification states it: after a pointer   *)
(* down that picked an object, a pointer move to a position at least       *)
(* MINIMUM_POINTER_MOVE_THRESHOLD_PIXELS (7) pixels away on the x or the y *)
(* axis is dragging: isDragging is true after it, and onStartDragging is   *)
(* called unless the drag had started before; a move of fewer than 7       *)
(* pixels on both axes, or after a pointer down that picked nothing, does  *)
(* not start dragging.                                                     *)
C16_DragThreshold ==
    (step.kind = "pointermove" /\ PendingDown) =>
        IF PendingPicked /\ AtLeastThresholdAway
        THEN /\ layer.state.isDragging
             /\ ~previous.state.isDragging => Fired("onStartDragging")
        ELSE /\ ~Fired("onStartDragging")
             /\ layer.state.isDragging = previous.state.isDragging

(* C17.  Drag events alternate, as the specification states it: over any   *)
(* sequence of pointer events onStartDragging and onStopDragging alternate *)
(* and onStartDragging comes first; every onStartDragging is followed by   *)
(* onStopDragging, at the next pointer up, before another onStartDragging  *)
(* or an onClick.                                                          *)
C17_DragEventsAlternate ==
    /\ \A k \in 1..Len(log) :
          /\ log[k] = "onStopDragging" => k > 1 /\ log[k - 1] = "onStartDragging"
          /\ (log[k] = "onStartDragging" /\ k < Len(log)) => log[k + 1] = "onStopDragging"
    /\ (step.kind = "pointerup" /\ log # <<>>) => Last(log) # "onStartDragging"

(* C18.  A pointer up without a pointer down is ignored: when a pointer up *)
(* arrives and no pointer down is pending, no callback is called (not      *)
(* onClick, not onStopDragging, not onPointerUp) and the layer's state     *)
(* (the pointer-down coordinates and picks, isDragging, pointerHandlers)   *)
(* and its listeners are as they were.                                     *)
C18_StrayPointerUpIgnored ==
    (step.kind = "pointerup" /\ ~PendingDown) =>
        /\ layer.fired = <<>>
        /\ layer.state = previous.state
        /\ layer.listeners = previous.listeners

\* a second pointer up, after one that ended a click or a drag
C18_Witness ==
    /\ step.kind = "pointerup"
    /\ ~PendingDown
    /\ log # <<>>
    /\ layer.state.pointerHandlers # NoHandlers

(* C19.  Click versus drag, as the specification states it: a pointer up   *)
(* with a pending pointer down calls onClick exactly when no drag has      *)
(* started since that pointer down and the pointer is less than the        *)
(* threshold, the distance that makes a move a drag, away from the pointer *)
(* down on both axes; it never calls both onClick and onStopDragging, and  *)
(* after it isDragging is false and the pointer-down coordinates and picks *)
(* are null.  (isDragging says whether a drag has started since the        *)
(* pointer down: a pointer down sets it to false, and a move changes it    *)
(* only to true and only with onStartDragging.)                            *)
C19_ClickOrDrag ==
    /\ step.kind = "pointerdown" => ~layer.state.isDragging
    /\ step.kind = "pointermove" =>
          (layer.state.isDragging <=>
              (previous.state.isDragging \/ Fired("onStartDragging")))
    /\ (step.kind = "pointerup" /\ PendingDown) =>
          /\ Fired("onClick") <=>
                (~previous.state.isDragging /\ ~AtLeastThresholdAway)
          /\ ~(Fired("onClick") /\ Fired("onStopDragging"))
          /\ PointerStateCleared

(* C20.  Listener registration: after initializeState and any sequence of  *)
(* updateState calls and pointer events, the canvas has no listener of the *)
(* layer, or the four of pointerHandlers (pointermove, pointerdown,        *)
(* pointerup, dblclick) and no other; after finalizeState it has none and  *)
(* pointerHandlers is null.                                                *)
ListenerTypes == {"pointermove", "pointerdown", "pointerup", "dblclick"}

C20_OneSetOfListeners ==
    /\ \/ layer.listeners = <<>>
       \/ /\ layer.state.pointerHandlers # NoHandlers
          /\ Len(layer.listeners) = Cardinality(ListenerTypes)
          /\ \A type \in ListenerTypes :
                \E k \in 1..Len(layer.listeners) :
                    layer.listeners[k] =
                        [type |-> type, handlers |-> layer.state.pointerHandlers]
    /\ Finalized =>
          layer.listeners = <<>> /\ layer.state.pointerHandlers = NoHandlers

\* finalizeState removed the listeners of a layer that had handled pointer
\* events
C20_Witness ==
    /\ Finalized
    /\ Len(previous.listeners) = Cardinality(ListenerTypes)
    /\ log # <<>>
    /\ layer.listeners = <<>>

=============================================================================
